---- MODULE Spec2Model ----
(***************************************************************************)
(* Model of razer_control_gui/service/src/effects.rs: the EffectManager    *)
(* (effect stack, layer history, frame gate, merge and render) and the     *)
(* Static and Breath effects it drives; the Blend effect's precomputed     *)
(* frame and the Breath effect's phases are also explored on an effect     *)
(* object of its own, outside any manager.                                 *)
(*                                                                         *)
(* Time is the wall clock in milliseconds since the epoch, read by         *)
(* get_millis().  The model keeps the clock non-decreasing and never below *)
(* the largest cycle duration: the unsigned subtractions at lines 29 and   *)
(* 190 presuppose both.  BreathEffect.step_start_ms is written once at     *)
(* line 176 and never read; the effect record leaves it out.               *)
(***************************************************************************)
EXTENDS Integers, Sequences, FiniteSets, TLC

\* ------------------------------------------------------------------ bounds
NumKeys == 2        \* keys of the keyboard buffer (90 in rgb::KeyboardData)
MaxDepth == 2       \* deepest effect stack explored
StartTime == 66     \* clock value at EffectManager::new
MaxTime == 133      \* the environment stops advancing the clock here
FillDepth == 254    \* effects already on a deep stack when its exploration starts
StackWindow == 3    \* pushes explored above an empty and above a deep stack

\* --------------------------------------------------------- program constants
ANIMATIONS_DELAY_MS == 33
U8Mod == 256
ROWS == 6             \* for x in 0..6
KEYS_PER_ROW == 15    \* for x in 0..15

Keys == 0 .. (NumKeys - 1)

\* A colour is <<red, green, blue>>, each channel a u8.
Black == <<0, 0, 0>>
StaticColours == {<<255, 0, 0>>}
BreathTargets == {<<255, 255, 255>>}
\* Cycle durations: dur/33 and target/(dur/33) are exact in f32 for these.
Durations == {66}
\* Accumulators are held in fixed point: the f32 value times FxScale.
FxScale == 2

\* Blend end colours, Breath targets and cycle durations explored on an effect of
\* its own; target/(dur/33) is exact in f32 for each of these targets and durations.
BlendColours == {Black, <<255, 255, 255>>, <<255, 0, 128>>, <<10, 200, 30>>, <<25, 0, 77>>}
EffectDirs == {"Vertical", "Horizontal", "Diagonal", "Circular"}
TargetColours == {<<255, 255, 255>>, <<255, 0, 128>>}
CycleDurations == {11, 33, 66}

\* Clock advances the environment can make between two calls.
TickSteps == {ANIMATIONS_DELAY_MS - 1, ANIMATIONS_DELAY_MS}
\* Clock advances while one update call runs (gate read to post-render read).
RenderDelays == {0, 1}

VARIABLES
    layerHistory,    \* Vec<[u8; 90]>: sequence of masks, mask = [Keys -> 0..255]
    effects,         \* Vec<Box<dyn Effect>>: sequence of effect records
    lastUpdateTime,  \* u128
    combined,        \* rgb::KeyboardData: [Keys -> colour]
    clock,           \* the wall clock get_millis() reads
    handler,         \* the render sink: number of renders and the last buffer rendered
    panicked,        \* TRUE once an index or unwrap failed (the thread panicked)
    lastCall,        \* history: the most recent call on the manager, its arguments, what it
                     \* did, (push_effect, pop_effect) the stacks it found and (update) its
                     \* gate reading while that is less than 33 ms old; or the most recent
                     \* call on the effect object, its arguments, the clock value it read,
                     \* the effect it found and the frame it handed out
    lastRender,      \* history: the gate reading of the most recent update call that rendered
    effect           \* an effect object of its own (BlendEffect or BreathEffect), driven
                     \* through Effect::update directly; NoEffect where a manager is explored

vars == <<layerHistory, effects, lastUpdateTime, combined, clock, handler, panicked,
          lastCall, lastRender, effect>>

\* ------------------------------------------------------------ KeyboardData
KeyboardData_new == [k \in Keys |-> Black]

set_kbd_colour(kbd, red, green, blue) == [k \in Keys |-> <<red, green, blue>>]

set_key_at(kbd, key_index, colour) == [kbd EXCEPT ![key_index] = colour]

get_key_at(kbd, key_index) == kbd[key_index]

\* combined.update_kbd(handler): one render of the buffer through the sink
update_kbd(kbd, h) == [renders |-> h.renders + 1, kbd |-> kbd]

\* The 6 x 15 partition of the buffer into rows and columns: a cell is <<row, col>>
Rows == 0 .. (ROWS - 1)
Cols == 0 .. (KEYS_PER_ROW - 1)

KeyboardGrid_new == [p \in Rows \X Cols |-> Black]

set_row_colour(kbd, row, red, green, blue) ==
    [p \in DOMAIN kbd |-> IF p[1] = row THEN <<red, green, blue>> ELSE kbd[p]]

set_col_colour(kbd, col, red, green, blue) ==
    [p \in DOMAIN kbd |-> IF p[2] = col THEN <<red, green, blue>> ELSE kbd[p]]

\* ------------------------------------------------------------ f32 arithmetic
\* An f32 magnitude is [m, e]: the value m * 2^(-e), m a significand of 24 bits.
\* Every operation rounds to nearest, ties to even.

\* Number of binary digits of n
RECURSIVE BitLen(_)
BitLen(n) == IF n = 0 THEN 0 ELSE 1 + BitLen(n \div 2)

\* num / den rounded to the nearest integer, ties to even
RoundHalfEven(num, den) ==
    LET q == num \div den
        r == num % den
    IN IF 2 * r > den \/ (2 * r = den /\ q % 2 = 1) THEN q + 1 ELSE q

\* The least e >= from at which i * 2^e / n has 24 binary digits
RECURSIVE F32Exp(_, _, _)
F32Exp(i, n, from) ==
    IF (i * 2^from) \div n >= 2^23 THEN from ELSE F32Exp(i, n, from + 1)

\* i as f32 / n as f32, for 1 <= i <= n <= 15
F32Div(i, n) ==
    LET e == F32Exp(i, n, 23)
    IN [m |-> RoundHalfEven(i * 2^e, n), e |-> e]

\* a as f32 * r, for 1 <= a <= 255: the product a * r.m has up to 32 binary digits
\* and is held as hi * 4096 + lo; t digits are rounded away
F32Mul(a, r) ==
    LET hi == a * (r.m \div 4096) + (a * (r.m % 4096)) \div 4096
        lo == (a * (r.m % 4096)) % 4096
        t == BitLen(hi) + 12 - 24
        kept == hi * 2^(12 - t) + lo \div 2^t
        rem == lo % 2^t
        up == t > 0 /\ (2 * rem > 2^t \/ (2 * rem = 2^t /\ kept % 2 = 1))
    IN [m |-> IF up THEN kept + 1 ELSE kept, e |-> r.e - t]

\* Mutant: the blend ratio of row or column x is x/n, not (x+1)/n.
BlendChannel_FromZero(c1, c2, x, n) == (c1 * n + (c2 - c1) * x) \div n

\* Mutant: the interpolated channel is rounded to the nearest integer.
BlendChannel_Nearest(c1, c2, x, n) == (2 * (c1 * n + (c2 - c1) * (x + 1)) + n) \div (2 * n)

\* (c1 as f32 + (d * col_blend_ratio)) as u8, where d = c2 as f32 - c1 as f32 and
\* col_blend_ratio = (x+1) as f32 / n.  The sum is whole + fnum/2^e before it is
\* rounded; it rounds up to whole + 1 when it lies within half a unit in the last
\* place below whole + 1, and `as u8` then truncates.
BlendChannel(c1, c2, x, n) ==
    IF c1 = c2 THEN c1
    ELSE LET a == IF c2 > c1 THEN c2 - c1 ELSE c1 - c2
             p == F32Mul(a, F32Div(x + 1, n))
             ip == p.m \div 2^(p.e)
             fm == p.m % 2^(p.e)
             whole == IF c2 > c1 THEN c1 + ip
                      ELSE IF fm = 0 THEN c1 - ip ELSE c1 - ip - 1
             fnum == IF c2 > c1 \/ fm = 0 THEN fm ELSE 2^(p.e) - fm
             b == whole + 1
             j == IF 2^(BitLen(b) - 1) = b THEN BitLen(b) - 2 ELSE BitLen(b) - 1
             ulps == p.e + j - 24
             v == IF fnum = 0 THEN whole
                  ELSE IF b <= 0 THEN 0
                  ELSE IF ulps >= 0 /\ 2^(p.e) - fnum <= 2^ulps THEN b ELSE whole
         IN IF v < 0 THEN 0 ELSE IF v > 255 THEN 255 ELSE v

\* ------------------------------------------------------------------ effects
StaticEffect_new(red, green, blue) ==
    [type |-> "Static", kbd |-> set_kbd_colour(KeyboardData_new, red, green, blue)]

StaticEffect_update(x) == [effect |-> x, frame |-> x.kbd]

BreathEffect_new(red, green, blue, cycle_duration_ms) ==
    [type |-> "Breath",
     kbd |-> set_kbd_colour(KeyboardData_new, 0, 0, 0),
     step_duration_ms |-> cycle_duration_ms,
     curr_step |-> 0,
     targ_red |-> red * FxScale, targ_green |-> green * FxScale, targ_blue |-> blue * FxScale,
     curr_red |-> 0, curr_green |-> 0, curr_blue |-> 0]

\* for x in 0..6 { k.set_row_colour(x, ...) }, from row x up
RECURSIVE BlendRows(_, _, _, _)
BlendRows(k, x, colour1, colour2) ==
    IF x >= ROWS THEN k
    ELSE BlendRows(set_row_colour(k, x, BlendChannel(colour1[1], colour2[1], x, ROWS),
                                        BlendChannel(colour1[2], colour2[2], x, ROWS),
                                        BlendChannel(colour1[3], colour2[3], x, ROWS)),
                   x + 1, colour1, colour2)

\* for x in 0..15 { k.set_col_colour(x, ...) }, from column x up
RECURSIVE BlendCols(_, _, _, _)
BlendCols(k, x, colour1, colour2) ==
    IF x >= KEYS_PER_ROW THEN k
    ELSE BlendCols(set_col_colour(k, x, BlendChannel(colour1[1], colour2[1], x, KEYS_PER_ROW),
                                        BlendChannel(colour1[2], colour2[2], x, KEYS_PER_ROW),
                                        BlendChannel(colour1[3], colour2[3], x, KEYS_PER_ROW)),
                   x + 1, colour1, colour2)

\* BlendEffect::new(r1, g1, b1, r2, g2, b2, dir): any direction but Vertical and
\* Horizontal is built as Vertical
BlendEffect_new(colour1, colour2, dir) ==
    [type |-> "Blend",
     kbd |-> IF dir = "Horizontal" THEN BlendCols(KeyboardGrid_new, 0, colour1, colour2)
             ELSE BlendRows(KeyboardGrid_new, 0, colour1, colour2)]

BlendEffect_update(x) == [effect |-> x, frame |-> x.kbd]

\* f32 `as u8`: truncation toward zero, saturating at 0 and 255
AsU8(fx) == IF fx < 0 THEN 0
            ELSE IF fx \div FxScale > 255 THEN 255
            ELSE fx \div FxScale

\* targ / (step_duration_ms as f32 / ANIMATIONS_DELAY_MS as f32), in fixed point
BreathStep(targ, step_duration_ms) == (targ * ANIMATIONS_DELAY_MS) \div step_duration_ms

\* Mutant: the phase changes only once the difference exceeds the duration.
PhaseDue_Strict(now, step_duration_ms) == now - step_duration_ms > step_duration_ms

\* Time to change the keyboard's phase?
PhaseDue(now, step_duration_ms) == now - step_duration_ms >= step_duration_ms

NextStep(curr_step) == IF curr_step + 1 = 4 THEN 0 ELSE curr_step + 1

BreathEffect_update(x, now) ==
    LET step == IF PhaseDue(now, x.step_duration_ms) THEN NextStep(x.curr_step) ELSE x.curr_step
        step_red == BreathStep(x.targ_red, x.step_duration_ms)
        step_green == BreathStep(x.targ_green, x.step_duration_ms)
        step_blue == BreathStep(x.targ_blue, x.step_duration_ms)
        sign == IF step = 1 THEN 1 ELSE IF step = 3 THEN -1 ELSE 0
        red == x.curr_red + sign * step_red
        green == x.curr_green + sign * step_green
        blue == x.curr_blue + sign * step_blue
        k == set_kbd_colour(x.kbd, AsU8(red), AsU8(green), AsU8(blue))
    IN [effect |-> [x EXCEPT !.curr_step = step, !.curr_red = red, !.curr_green = green,
                             !.curr_blue = blue, !.kbd = k],
        frame |-> k]

\* dyn Effect::update: dispatch on the variant
Effect_update(x, now) ==
    IF x.type = "Breath" THEN BreathEffect_update(x, now) ELSE StaticEffect_update(x)

\* The effects a caller can construct and push
NewEffects ==
    {StaticEffect_new(c[1], c[2], c[3]) : c \in StaticColours}
    \cup {BreathEffect_new(c[1], c[2], c[3], d) : c \in BreathTargets, d \in Durations}

\* ------------------------------------------------------------ EffectManager
get_millis == clock

Last(s) == s[Len(s)]

\* Vec::pop: removes the last element, or does nothing on an empty vector
Pop(s) == IF Len(s) = 0 THEN s ELSE SubSeq(s, 1, Len(s) - 1)

\* Mutant: pop_effect leaves the effect stack alone.
PopEffects_Keep(efs) == efs

\* self.effects.pop()
PopEffects(efs) == Pop(efs)

\* get_effect_layer_count: self.effects.len()
get_effect_layer_count(efs) == Len(efs)

\* Mutant: pop_effect forgets the layer history.
PopLayer_Keep(history) == history

\* self.layerHistory.pop()
PopLayer(history) == Pop(history)

\* Mutant: the gate opens one millisecond early.
GatePasses_Early(now, last) == now - last >= ANIMATIONS_DELAY_MS - 1

\* Mutant: the gate compares with > instead of >=.
GatePasses_Strict(now, last) == now - last > ANIMATIONS_DELAY_MS

\* get_millis() - self.lastUpdateTime >= ANIMATIONS_DELAY_MS
GatePasses(now, last) == now - last >= ANIMATIONS_DELAY_MS

\* Mutant: update forgets the empty-stack return.
EarlyReturn_GateOnly(now, last, history) == ~GatePasses(now, last)

\* update returns without doing anything: the gate is closed, or there is no layer
EarlyReturn(now, last, history) == ~GatePasses(now, last) \/ Len(history) = 0

\* Mutant: only the effects that own a key of the mask are updated; the others
\* hand back the frame they hold.
RECURSIVE UpdateFrom_VisibleOnly(_, _, _, _)
UpdateFrom_VisibleOnly(efs, times, from, mask) ==
    IF from > Len(efs)
    THEN [effects |-> <<>>, keyboards |-> <<>>, calls |-> <<>>]
    ELSE LET visible == \E k \in Keys : mask[k] = from - 1
             u == IF visible THEN Effect_update(efs[from], times[from])
                  ELSE [effect |-> efs[from], frame |-> efs[from].kbd]
             rest == UpdateFrom_VisibleOnly(efs, times, from + 1, mask)
         IN [effects |-> <<u.effect>> \o rest.effects,
             keyboards |-> <<u.frame>> \o rest.keyboards,
             calls |-> (IF visible THEN <<from - 1>> ELSE <<>>) \o rest.calls]

\* self.effects.iter_mut().map(|x| x.update()).collect(): effects are visited from
\* position `from` up, the i-th reads the clock as times[i]; `calls` logs the stack
\* index of each effect whose update ran, in the order it ran
RECURSIVE UpdateFrom(_, _, _, _)
UpdateFrom(efs, times, from, mask) ==
    IF from > Len(efs)
    THEN [effects |-> <<>>, keyboards |-> <<>>, calls |-> <<>>]
    ELSE LET u == Effect_update(efs[from], times[from])
             rest == UpdateFrom(efs, times, from + 1, mask)
         IN [effects |-> <<u.effect>> \o rest.effects,
             keyboards |-> <<u.frame>> \o rest.keyboards,
             calls |-> <<from - 1>> \o rest.calls]

UpdateAll(efs, times, mask) == UpdateFrom(efs, times, 1, mask)

\* Mutant: update merges by the oldest mask.
MergeMask_First(history) == history[1]

\* The mask update merges by: self.layerHistory.last().unwrap()
MergeMask(history) == Last(history)

\* The first key whose layer index is no index into keyboards (NumKeys if none):
\* keyboards[*layer_index as usize] panics there
FirstBadKey(mask, n) ==
    IF \A k \in Keys : mask[k] < n THEN NumKeys
    ELSE CHOOSE k \in Keys : mask[k] >= n /\ \A j \in Keys : j < k => mask[j] < n

\* for (key_index, layer_index) in mask.iter().enumerate() {
\*     self.combined.set_key_at(key_index, keyboards[layer_index].get_key_at(key_index)) }
Merge(kbd, mask, keyboards) ==
    [k \in Keys |-> IF k < FirstBadKey(mask, Len(keyboards))
                    THEN get_key_at(keyboards[mask[k] + 1], k)
                    ELSE kbd[k]]

\* Mutant: the owner written is always layer 0.
AsLayerU8_Zero(new_layer_id) == 0

\* Mutant: the owner written is the stack length, one past the new layer.
AsLayerU8_OffByOne(new_layer_id) == (new_layer_id + 1) % U8Mod

\* Mutant: the owner is written unreduced, as if masks held usize entries.
AsLayerU8_NoWrap(new_layer_id) == new_layer_id

\* new_layer_id as u8
AsLayerU8(new_layer_id) == new_layer_id % U8Mod

\* Mutant: the loop writes the mask below the copy it has just pushed.
PushHistory_WritesBelow(history, n_effects, enabled_keys) ==
    IF Len(history) = 0
    THEN Append(history, [k \in Keys |-> 0])
    ELSE LET new_layer_id == n_effects - 1
             copied == Append(history, history[Len(history)])
         IN [copied EXCEPT ![new_layer_id] =
                [k \in Keys |-> IF enabled_keys[k] THEN new_layer_id % U8Mod ELSE @[k]]]

\* Mutant: every push starts from a fresh all-zero mask instead of a copy of the
\* top mask.
PushHistory_FreshMask(history, n_effects, enabled_keys) ==
    IF Len(history) = 0
    THEN Append(history, [k \in Keys |-> 0])
    ELSE LET new_layer_id == n_effects - 1
             fresh == Append(history, [k \in Keys |-> 0])
         IN [fresh EXCEPT ![new_layer_id + 1] =
                [k \in Keys |-> IF enabled_keys[k] THEN new_layer_id % U8Mod ELSE @[k]]]

\* The layer history after push_effect, the effect stack then holding n_effects
PushHistory(history, n_effects, enabled_keys) ==
    IF Len(history) = 0
    THEN Append(history, [k \in Keys |-> 0])
    ELSE LET new_layer_id == n_effects - 1
             copied == Append(history, Last(history))
         IN IF new_layer_id + 1 > Len(copied)
            THEN copied
            ELSE [copied EXCEPT ![new_layer_id + 1] =
                     [k \in Keys |-> IF enabled_keys[k] THEN AsLayerU8(new_layer_id) ELSE @[k]]]

\* self.layerHistory[new_layer_id] is out of bounds at the first enabled key
PushPanics(history, n_effects, enabled_keys) ==
    /\ Len(history) # 0
    /\ n_effects > Len(history) + 1
    /\ \E k \in Keys : enabled_keys[k]

\* Mutant: the timestamp is not advanced past the previous frame interval.
RenderStamp_Stale(g, r) == g - ANIMATIONS_DELAY_MS

\* Mutant: the timestamp kept is the gate's reading.
RenderStamp_Gate(g, r) == g

\* self.lastUpdateTime = EffectManager::get_millis(): g is the gate's reading, r the
\* reading taken after the render
RenderStamp(g, r) == r

\* No update call has rendered yet.
NoRender == [any |-> FALSE, gate |-> 0]

\* No effect object of its own has been constructed.
NoEffect == [type |-> "None"]

Init ==
    /\ layerHistory = <<>>
    /\ effects = <<>>
    /\ clock = StartTime
    /\ lastUpdateTime = StartTime
    /\ combined = KeyboardData_new
    /\ handler = [renders |-> 0, kbd |-> KeyboardData_new]
    /\ panicked = FALSE
    /\ lastCall = [op |-> "new"]
    /\ lastRender = NoRender
    /\ effect = NoEffect

\* The environment: wall-clock time passes between calls.
Tick ==
    /\ ~panicked
    /\ \E d \in TickSteps :
        /\ clock + d <= MaxTime
        /\ clock' = clock + d
        /\ lastCall' = IF lastCall.op = "update" /\ lastCall.recent
                           /\ clock + d - lastCall.gate >= ANIMATIONS_DELAY_MS
                        THEN [lastCall EXCEPT !.recent = FALSE, !.gate = 0]
                        ELSE lastCall
    /\ UNCHANGED <<layerHistory, effects, lastUpdateTime, combined, handler, panicked,
                   lastRender, effect>>

\* EffectManager::update.  g is the gate's clock reading, r the reading after the
\* render; the effects below position `split` read g, the others r.
Update ==
    /\ ~panicked
    /\ \E e \in RenderDelays, split \in 0 .. Len(effects) :
        LET g == get_millis
            r == g + e
            times == [i \in 1 .. Len(effects) |-> IF i <= split THEN g ELSE r]
        IN IF EarlyReturn(g, lastUpdateTime, layerHistory)
           THEN /\ lastCall' = [op |-> "update", recent |-> TRUE, gate |-> g, rendered |-> FALSE,
                                calls |-> <<>>, keyboards |-> <<>>]
                /\ UNCHANGED <<layerHistory, effects, lastUpdateTime, combined, clock,
                               handler, panicked, lastRender, effect>>
           ELSE IF Len(layerHistory) = 0
           THEN \* last().unwrap() on an empty history
                /\ panicked' = TRUE
                /\ lastCall' = [op |-> "update", recent |-> TRUE, gate |-> g, rendered |-> FALSE,
                                calls |-> <<>>, keyboards |-> <<>>]
                /\ UNCHANGED <<layerHistory, effects, lastUpdateTime, combined, clock, handler,
                               lastRender, effect>>
           ELSE LET mask == MergeMask(layerHistory)
                    res == UpdateAll(effects, times, mask)
                    ok == FirstBadKey(mask, Len(res.keyboards)) = NumKeys
                    merged == Merge(combined, mask, res.keyboards)
                IN /\ effects' = res.effects
                   /\ combined' = merged
                   /\ panicked' = ~ok
                   /\ handler' = IF ok THEN update_kbd(merged, handler) ELSE handler
                   /\ lastUpdateTime' = IF ok THEN RenderStamp(g, r) ELSE lastUpdateTime
                   /\ clock' = r
                   /\ lastCall' = [op |-> "update", recent |-> TRUE, gate |-> g, rendered |-> ok,
                                   calls |-> res.calls, keyboards |-> res.keyboards]
                   /\ lastRender' = IF ok THEN [any |-> TRUE, gate |-> g] ELSE lastRender
                   /\ UNCHANGED <<layerHistory, effect>>

\* EffectManager::push_effect
PushEffect ==
    /\ ~panicked
    /\ Len(effects) < MaxDepth
    /\ \E newEffect \in NewEffects, enabled_keys \in [Keys -> BOOLEAN] :
        /\ effects' = Append(effects, newEffect)
        /\ layerHistory' = PushHistory(layerHistory, Len(effects) + 1, enabled_keys)
        /\ panicked' = PushPanics(layerHistory, Len(effects) + 1, enabled_keys)
        /\ lastCall' = [op |-> "push_effect", enabled_keys |-> enabled_keys,
                        pre_effects |-> effects, pre_history |-> layerHistory]
    /\ UNCHANGED <<lastUpdateTime, combined, clock, handler, lastRender, effect>>

\* EffectManager::pop_effect
PopEffect ==
    /\ ~panicked
    /\ effects' = PopEffects(effects)
    /\ layerHistory' = PopLayer(layerHistory)
    /\ lastCall' = [op |-> "pop_effect",
                    after_push |-> lastCall.op = "push_effect",
                    was_empty |-> Len(effects) = 0,
                    pre_effects |-> IF lastCall.op = "push_effect" THEN lastCall.pre_effects ELSE <<>>,
                    pre_history |-> IF lastCall.op = "push_effect" THEN lastCall.pre_history ELSE <<>>]
    /\ UNCHANGED <<lastUpdateTime, combined, clock, handler, panicked, lastRender, effect>>

Next == Tick \/ Update \/ PushEffect \/ PopEffect

Spec == Init /\ [][Next]_vars

\* ------------------------------------------------- the stacks alone, shallow and deep
\* push_effect and pop_effect only, from an empty manager and from a manager that
\* FillDepth pushes with no key enabled have filled.  Here lastCall also carries
\* `flags`: the enabled_keys each effect now on the stack was pushed with.
NoKeys == [k \in Keys |-> FALSE]

FillEffect == StaticEffect_new(255, 0, 0)

\* The effect stack after n pushes of FillEffect
FillEffects(n) == [i \in 1 .. n |-> FillEffect]

\* The layer history after n pushes with no key enabled: the first push writes
\* [0; 90], each later one copies the mask below it and changes no entry
FillHistory(n) == [i \in 1 .. n |-> [k \in Keys |-> 0]]

StackBases == {0, FillDepth}

\* The depth the exploration of the present stack started from
StackBase == IF Len(effects) >= FillDepth THEN FillDepth ELSE 0

InitStack ==
    /\ \E base \in StackBases :
          /\ effects = FillEffects(base)
          /\ layerHistory = FillHistory(base)
          /\ lastCall = [op |-> "new", flags |-> [i \in 1 .. base |-> NoKeys]]
    /\ clock = StartTime
    /\ lastUpdateTime = StartTime
    /\ combined = KeyboardData_new
    /\ handler = [renders |-> 0, kbd |-> KeyboardData_new]
    /\ panicked = FALSE
    /\ lastRender = NoRender
    /\ effect = NoEffect

\* EffectManager::push_effect
StackPush ==
    /\ ~panicked
    /\ Len(effects) < StackBase + StackWindow
    /\ \E enabled_keys \in [Keys -> BOOLEAN] :
        /\ effects' = Append(effects, FillEffect)
        /\ layerHistory' = PushHistory(layerHistory, Len(effects) + 1, enabled_keys)
        /\ panicked' = PushPanics(layerHistory, Len(effects) + 1, enabled_keys)
        /\ lastCall' = [op |-> "push_effect", enabled_keys |-> enabled_keys,
                        pre_effects |-> effects, pre_history |-> layerHistory,
                        flags |-> Append(lastCall.flags, enabled_keys)]
    /\ UNCHANGED <<lastUpdateTime, combined, clock, handler, lastRender, effect>>

\* EffectManager::pop_effect
StackPop ==
    /\ ~panicked
    /\ StackBase = 0 \/ Len(effects) > StackBase
    /\ effects' = PopEffects(effects)
    /\ layerHistory' = PopLayer(layerHistory)
    /\ lastCall' = [op |-> "pop_effect", was_empty |-> Len(effects) = 0,
                    flags |-> Pop(lastCall.flags)]
    /\ UNCHANGED <<lastUpdateTime, combined, clock, handler, panicked, lastRender, effect>>

NextStack == StackPush \/ StackPop

SpecStack == InitStack /\ [][NextStack]_vars

\* ------------------------------------------------------ a Blend effect of its own
\* BlendEffect::new
BlendNew ==
    /\ \E colour1 \in BlendColours, colour2 \in BlendColours, dir \in EffectDirs :
        /\ effect' = BlendEffect_new(colour1, colour2, dir)
        /\ lastCall' = [op |-> "BlendEffect::new", colour1 |-> colour1, colour2 |-> colour2,
                        dir |-> dir, frame |-> <<>>]
    /\ UNCHANGED <<layerHistory, effects, lastUpdateTime, combined, clock, handler, panicked,
                   lastRender>>

\* <BlendEffect as Effect>::update
BlendUpdate ==
    /\ effect.type = "Blend"
    /\ LET u == BlendEffect_update(effect)
       IN /\ effect' = u.effect
          /\ lastCall' = [lastCall EXCEPT !.op = "Effect::update", !.frame = u.frame]
    /\ UNCHANGED <<layerHistory, effects, lastUpdateTime, combined, clock, handler, panicked,
                   lastRender>>

NextBlend == BlendNew \/ BlendUpdate

SpecBlend == Init /\ [][NextBlend]_vars

\* ----------------------------------------------------- a Breath effect of its own
\* BreathEffect::new
BreathNew ==
    /\ \E c \in TargetColours, d \in CycleDurations :
        effect' = BreathEffect_new(c[1], c[2], c[3], d)
    /\ lastCall' = [op |-> "BreathEffect::new"]
    /\ UNCHANGED <<layerHistory, effects, lastUpdateTime, combined, clock, handler, panicked,
                   lastRender>>

\* <BreathEffect as Effect>::update; `before` is the effect the call found, `now`
\* the clock value it read
BreathUpdate ==
    /\ effect.type = "Breath"
    /\ LET u == BreathEffect_update(effect, get_millis)
       IN /\ effect' = u.effect
          /\ lastCall' = [op |-> "Effect::update", now |-> get_millis, before |-> effect,
                          frame |-> u.frame]
    /\ UNCHANGED <<layerHistory, effects, lastUpdateTime, combined, clock, handler, panicked,
                   lastRender>>

NextBreath == Tick \/ BreathNew \/ BreathUpdate

SpecBreath == Init /\ [][NextBreath]_vars

\* ===================================================================== claims

AllTrue(enabled_keys) == \A k \in Keys : enabled_keys[k]

\* An update call that finds a non-empty stack and an open gate
Eligible == Len(effects) > 0 /\ clock - lastUpdateTime >= ANIMATIONS_DELAY_MS

\* C1: after new and after any sequence of push_effect, pop_effect and update calls,
\* pops of an empty manager included, the layer history and the effect stack have
\* the same length.
C1_SameLength == Len(layerHistory) = Len(effects)

\* C1 witness: a pop of an empty manager, after a render
C1_Witness ==
    /\ lastCall.op = "pop_effect"
    /\ lastCall.was_empty
    /\ handler.renders > 0
    /\ Len(effects) = 0

\* C2: every entry of the mask at position i of the layer history is at most i;
\* every entry of the top mask is an index into the effect stack, and update's
\* per-key frame lookup never leaves the candidate frames (no call panics).
C2_MaskInRange ==
    /\ \A i \in 1 .. Len(layerHistory) : \A k \in Keys : layerHistory[i][k] <= i - 1
    /\ Len(layerHistory) > 0 => \A k \in Keys : Last(layerHistory)[k] < Len(effects)
    /\ ~panicked

\* C2 witness: a render through a top mask that names the topmost layer
C2_Witness ==
    /\ lastCall.op = "update"
    /\ lastCall.rendered
    /\ Len(effects) = MaxDepth
    /\ \E k \in Keys : Last(layerHistory)[k] = MaxDepth - 1

\* C3: push_effect immediately followed by pop_effect leaves the effect stack and
\* the whole layer history as they were before the push.
C3_PushPopRestores ==
    (lastCall.op = "pop_effect" /\ lastCall.after_push)
        => (effects = lastCall.pre_effects /\ layerHistory = lastCall.pre_history)

\* C3 witness: push A, push B on some keys only, pop: A's mask is on top again
C3_Witness ==
    /\ lastCall.op = "pop_effect"
    /\ lastCall.after_push
    /\ Len(effects) >= 1
    /\ Len(layerHistory) = Len(effects)
    /\ \A k \in Keys : Last(layerHistory)[k] = 0

\* C4 as stated, for two successive update calls: an update call made less than
\* 33 ms after the previous update call leaves the combined buffer and the
\* last-render timestamp as they were.
C4_Original ==
    [][(Update /\ lastCall.op = "update" /\ lastCall.recent
               /\ clock - lastCall.gate < ANIMATIONS_DELAY_MS)
          => (combined' = combined /\ lastUpdateTime' = lastUpdateTime)]_vars

\* C4 amended: an update call made less than 33 ms after an update call that
\* rendered leaves the combined buffer and the last-render timestamp as they were,
\* whatever push_effect and pop_effect calls came before or between the two.
C4_AfterRender ==
    [][(Update /\ lastRender.any /\ clock - lastRender.gate < ANIMATIONS_DELAY_MS)
          => (combined' = combined /\ lastUpdateTime' = lastUpdateTime)]_vars

\* C4 witness: an update call, on a non-empty stack, 32 ms after one that rendered
C4_Witness ==
    /\ lastCall.op = "update"
    /\ lastCall.recent
    /\ lastRender.any
    /\ lastCall.gate = lastRender.gate + ANIMATIONS_DELAY_MS - 1
    /\ ~lastCall.rendered
    /\ Len(effects) > 0

\* C5: an update call whose clock reading is less than 33 ms after the last-render
\* timestamp invokes neither the render sink nor any effect's update and leaves
\* the effect stack, the layer history, the combined buffer and the last-render
\* timestamp unchanged; a reading exactly 33 ms after it is not gated.
C5_GateClosed ==
    [][/\ (Update /\ clock - lastUpdateTime < ANIMATIONS_DELAY_MS)
            => /\ UNCHANGED <<effects, layerHistory, combined, lastUpdateTime, handler>>
               /\ lastCall'.calls = <<>>
       /\ (Update /\ Len(effects) > 0 /\ clock - lastUpdateTime = ANIMATIONS_DELAY_MS)
            => handler'.renders = handler.renders + 1]_vars

\* C5 witness: a gated update call 32 ms after a render, with an animated effect
\* on the stack
C5_Witness ==
    /\ lastCall.op = "update"
    /\ ~lastCall.rendered
    /\ handler.renders > 0
    /\ clock - lastUpdateTime = ANIMATIONS_DELAY_MS - 1
    /\ \E i \in 1 .. Len(effects) : effects[i].type = "Breath"

\* C6: with the effect stack empty, an update call at any clock value returns
\* normally without invoking the render sink and leaves the combined buffer and
\* the last-render timestamp unchanged.
C6_EmptyNoRender ==
    [][(Update /\ Len(effects) = 0)
          => UNCHANGED <<handler, combined, lastUpdateTime, panicked>>]_vars

\* C6 witness: an update call on a stack that pops have emptied, the gate open
C6_Witness ==
    /\ lastCall.op = "update"
    /\ Len(effects) = 0
    /\ handler.renders > 0
    /\ clock - lastUpdateTime >= ANIMATIONS_DELAY_MS

\* C7: an eligible update call invokes the render sink exactly once, with the
\* combined buffer, and then sets the last-render timestamp to the clock value
\* read after the render, which is not earlier than the gate's reading.
C7_RenderAndStamp ==
    [][(Update /\ Eligible)
          => /\ handler'.renders = handler.renders + 1
             /\ handler'.kbd = combined'
             /\ lastUpdateTime' = clock'
             /\ lastUpdateTime' >= clock]_vars

\* C7 witness: a render whose timestamp is later than its gate reading
C7_Witness ==
    /\ lastCall.op = "update"
    /\ lastCall.rendered
    /\ lastUpdateTime > lastRender.gate
    /\ lastUpdateTime = clock

\* C8: after an eligible update, for every key k the combined buffer's colour at k
\* is the colour at k of the frame produced in this call by the effect the top
\* mask names for k.
C8_MergeByTopMask ==
    (lastCall.op = "update" /\ lastCall.rendered)
        => \A k \in Keys :
              combined[k] = lastCall.keyboards[Last(layerHistory)[k] + 1][k]

\* C8 witness: a render in which two keys take different colours from two layers,
\* the top mask differing from the mask below it
C8_Witness ==
    /\ lastCall.op = "update"
    /\ lastCall.rendered
    /\ Len(layerHistory) >= 2
    /\ Last(layerHistory) # layerHistory[1]
    /\ \E j, k \in Keys : /\ Last(layerHistory)[j] # Last(layerHistory)[k]
                          /\ combined[j] # combined[k]

\* C9: on every eligible update, every effect of the stack has its update invoked
\* exactly once, from the bottom of the stack to the top, whether or not it owns a
\* key of the top mask; each effect advances as its own update advances it.
C9_AllEffectsAdvance ==
    [][(Update /\ Eligible)
          => /\ lastCall'.calls = [i \in 1 .. Len(effects) |-> i - 1]
             /\ Len(effects') = Len(effects)
             /\ \A i \in 1 .. Len(effects) :
                   \E t \in {clock, clock'} :
                       effects'[i] = Effect_update(effects[i], t).effect]_vars

\* C9 witness: a render in which a Breath effect that owns no key has left phase 0
C9_Witness ==
    /\ lastCall.op = "update"
    /\ lastCall.rendered
    /\ Len(effects) >= 2
    /\ effects[1].type = "Breath"
    /\ effects[1].curr_step = 1
    /\ effects[1].curr_red > 0
    /\ \A k \in Keys : Last(layerHistory)[k] # 0

\* C10: after a push_effect whose enabled_keys are all true, at any stack depth,
\* the top mask gives every key to the index of the effect just pushed.
C10_AllTrueOwnsAll ==
    (lastCall.op = "push_effect" /\ AllTrue(lastCall.enabled_keys))
        => \A k \in Keys : Last(layerHistory)[k] = Len(effects) - 1

\* C10 witness: such a push onto a stack whose top mask named an older layer
C10_Witness ==
    /\ lastCall.op = "push_effect"
    /\ AllTrue(lastCall.enabled_keys)
    /\ Len(effects) = MaxDepth
    /\ \A k \in Keys : Last(layerHistory)[k] = MaxDepth - 1

\* C11: a push_effect on a non-empty manager with no key enabled puts on top a
\* mask equal to the previous top mask and leaves the masks below as they were.
C11_NoKeysCopiesTop ==
    (lastCall.op = "push_effect" /\ lastCall.enabled_keys = NoKeys
                                 /\ Len(lastCall.pre_history) > 0)
        => /\ Last(layerHistory) = Last(lastCall.pre_history)
           /\ Len(layerHistory) = Len(lastCall.pre_history) + 1
           /\ SubSeq(layerHistory, 1, Len(layerHistory) - 1) = lastCall.pre_history

\* C11 witness: such a push onto a top mask that names a layer other than 0
C11_Witness ==
    /\ lastCall.op = "push_effect"
    /\ lastCall.enabled_keys = NoKeys
    /\ Len(lastCall.pre_history) >= 2
    /\ \E k \in Keys : Last(lastCall.pre_history)[k] # 0
    /\ Last(layerHistory) = Last(lastCall.pre_history)

\* C12: get_effect_layer_count starts at 0, a push_effect adds 1 to it, a
\* pop_effect subtracts 1 from it unless it is 0, and nothing else changes it; a
\* pop_effect on an empty manager does not fail and leaves the effect stack, the
\* layer history, the combined buffer and the last-render timestamp unchanged.
C12_CountAndEmptyPop ==
    /\ get_effect_layer_count(effects) = 0
    /\ [][/\ PushEffect
              => (get_effect_layer_count(effects') = get_effect_layer_count(effects) + 1)
          /\ PopEffect
              => (get_effect_layer_count(effects')
                    = IF get_effect_layer_count(effects) = 0 THEN 0
                      ELSE get_effect_layer_count(effects) - 1)
          /\ (Update \/ Tick)
              => (get_effect_layer_count(effects') = get_effect_layer_count(effects))
          /\ (PopEffect /\ get_effect_layer_count(effects) = 0)
              => (UNCHANGED <<effects, layerHistory, combined, lastUpdateTime>>
                    /\ ~panicked')]_vars

\* C12 witness: a pop of a manager that pushes, a render and pops have emptied
C12_Witness ==
    /\ lastCall.op = "pop_effect"
    /\ lastCall.was_empty
    /\ get_effect_layer_count(effects) = 0
    /\ handler.renders > 0
    /\ ~panicked

\* The frame a Blend effect holds after new, and hands out on update
BlendFrame == IF lastCall.op = "Effect::update" THEN lastCall.frame ELSE effect.kbd

\* A Breath effect's accumulators and targets (the f32 values times FxScale)
Curr(x) == <<x.curr_red, x.curr_green, x.curr_blue>>
Targ(x) == <<x.targ_red, x.targ_green, x.targ_blue>>
Channels == 1 .. 3

\* C13 as stated: a Breath effect's accumulators start at (0,0,0); whatever the
\* target and the cycle duration, no accumulator ever exceeds its target, and a
\* produce-frame call ending in the rising phase lowers none.
C13_NoOvershoot ==
    effect.type = "Breath"
        => /\ lastCall.op = "BreathEffect::new" => Curr(effect) = <<0, 0, 0>>
           /\ \A i \in Channels : Curr(effect)[i] <= Targ(effect)[i]
           /\ (lastCall.op = "Effect::update" /\ effect.curr_step = 1)
                 => \A i \in Channels : Curr(effect)[i] >= Curr(lastCall.before)[i]

\* C14: the last row (row 5) of a vertical Blend's frame and the last column
\* (column 14) of a horizontal Blend's frame hold colour2 exactly, whatever the
\* two colours.
C14_LastIsColour2 ==
    effect.type = "Blend"
        => /\ lastCall.dir = "Vertical"
                => \A col \in Cols : BlendFrame[<<ROWS - 1, col>>] = lastCall.colour2
           /\ lastCall.dir = "Horizontal"
                => \A row \in Rows : BlendFrame[<<row, KEYS_PER_ROW - 1>>] = lastCall.colour2

\* C14 witness: a horizontal Blend towards a darker colour, its frame handed out by
\* update: column 14 holds colour2, column 13 does not
C14_Witness ==
    /\ effect.type = "Blend"
    /\ lastCall.op = "Effect::update"
    /\ lastCall.dir = "Horizontal"
    /\ lastCall.colour1 = <<25, 0, 77>>
    /\ lastCall.colour2 = Black
    /\ \A row \in Rows : /\ lastCall.frame[<<row, KEYS_PER_ROW - 1>>] = Black
                         /\ lastCall.frame[<<row, KEYS_PER_ROW - 2>>] # Black

\* The exact value c1 + (c2 - c1) * (i+1)/n is num/n with this numerator
BlendNum(c1, c2, i, n) == c1 * n + (c2 - c1) * (i + 1)

\* C15 as stated, `round` and `converted to an integer` read as rounding to a
\* nearest integer, either neighbour at a tie: every channel of row i of a vertical
\* Blend's frame is within one half of c1 + (c2 - c1) * (i+1)/6, and row 0 of the
\* Blend from (0,0,0) to (255,255,255) holds 255/6 rounded half away from zero, 43.
C15_Original ==
    (effect.type = "Blend" /\ lastCall.dir = "Vertical")
        => /\ \A row \in Rows, col \in Cols, i \in Channels :
                LET num == BlendNum(lastCall.colour1[i], lastCall.colour2[i], row, ROWS)
                    d == 2 * (ROWS * BlendFrame[<<row, col>>][i] - num)
                IN d <= ROWS /\ -d <= ROWS
           /\ (lastCall.colour1 = Black /\ lastCall.colour2 = <<255, 255, 255>>)
                => \A col \in Cols, i \in Channels :
                      BlendFrame[<<0, col>>][i] = (2 * 255 + ROWS) \div (2 * ROWS)

\* C15 amended: every channel of row i of a vertical Blend's frame is
\* c1 + (c2 - c1) * (i+1)/6 truncated toward zero; row 0 of the Blend from (0,0,0)
\* to (255,255,255) holds 42 in every channel.
C15_Truncated ==
    (effect.type = "Blend" /\ lastCall.dir = "Vertical")
        => /\ \A row \in Rows, col \in Cols, i \in Channels :
                BlendFrame[<<row, col>>][i]
                    = BlendNum(lastCall.colour1[i], lastCall.colour2[i], row, ROWS) \div ROWS
           /\ (lastCall.colour1 = Black /\ lastCall.colour2 = <<255, 255, 255>>)
                => \A col \in Cols : BlendFrame[<<0, col>>] = <<42, 42, 42>>

\* C15 witness: the vertical Blend from (0,0,0) to (255,255,255), its frame handed
\* out by update with 42 in row 0; and one whose row 1 is not a tie, 128 * 2/6
\* giving 42
C15_Witness ==
    /\ effect.type = "Blend"
    /\ lastCall.op = "Effect::update"
    /\ lastCall.dir = "Vertical"
    /\ lastCall.colour1 = Black
    /\ \/ lastCall.colour2 = <<255, 255, 255>> /\ lastCall.frame[<<0, 0>>] = <<42, 42, 42>>
       \/ lastCall.colour2 = <<255, 0, 128>> /\ lastCall.frame[<<1, 0>>] = <<85, 0, 42>>

\* C16 as stated: the phase counter is always in 0..3; a produce-frame call advances
\* it by one, 3 wrapping to 0, if the clock value it reads minus the cycle duration
\* exceeds the cycle duration, and leaves it unchanged otherwise.
C16_Original ==
    effect.type = "Breath"
        => /\ effect.curr_step \in 0 .. 3
           /\ lastCall.op = "Effect::update"
                => effect.curr_step
                     = IF lastCall.now - effect.step_duration_ms > effect.step_duration_ms
                       THEN (lastCall.before.curr_step + 1) % 4
                       ELSE lastCall.before.curr_step

\* C16 amended: the phase counter is always in 0..3; a produce-frame call advances
\* it by one, 3 wrapping to 0, if the clock value it reads minus the cycle duration
\* is at least the cycle duration, and leaves it unchanged otherwise; a call that
\* follows a call for which that held advances the phase again.
C16_AtLeast ==
    /\ [](effect.type = "Breath"
            => /\ effect.curr_step \in 0 .. 3
               /\ lastCall.op = "Effect::update"
                    => effect.curr_step
                         = IF lastCall.now - effect.step_duration_ms
                                 >= effect.step_duration_ms
                           THEN (lastCall.before.curr_step + 1) % 4
                           ELSE lastCall.before.curr_step)
    /\ [][(BreathUpdate /\ lastCall.op = "Effect::update"
              /\ lastCall.now - effect.step_duration_ms >= effect.step_duration_ms)
            => effect'.curr_step = (effect.curr_step + 1) % 4]_vars

\* C16 witness: a call that reads the clock at exactly twice the cycle duration and
\* takes the effect out of phase 0
C16_Witness ==
    /\ effect.type = "Breath"
    /\ lastCall.op = "Effect::update"
    /\ lastCall.now = 2 * effect.step_duration_ms
    /\ lastCall.before.curr_step = 0
    /\ effect.curr_step = 1

\* C17 as stated: in phase 0 the accumulators are at black and in phase 2 at the
\* target colour; a produce-frame call that ends in phase 1 has added one step to
\* each accumulator, one that ends in phase 3 has subtracted one step, one that
\* ends in phase 0 or 2 has left them as they were.
C17_HeldAtTarget ==
    effect.type = "Breath"
        => /\ effect.curr_step = 0 => Curr(effect) = <<0, 0, 0>>
           /\ effect.curr_step = 2 => Curr(effect) = Targ(effect)
           /\ lastCall.op = "Effect::update"
                => \A i \in Channels :
                      Curr(effect)[i] - Curr(lastCall.before)[i]
                        = IF effect.curr_step = 1
                          THEN (Targ(effect)[i] * ANIMATIONS_DELAY_MS)
                                   \div effect.step_duration_ms
                          ELSE IF effect.curr_step = 3
                          THEN 0 - (Targ(effect)[i] * ANIMATIONS_DELAY_MS)
                                       \div effect.step_duration_ms
                          ELSE 0

\* The largest stack index j >= 1 of an effect now on the stack whose push enabled
\* key k, or 0 if there is none
LargestFlagged(flags, k) ==
    LET js == {j \in 1 .. (Len(flags) - 1) : flags[j + 1][k]}
    IN IF js = {} THEN 0 ELSE CHOOSE j \in js : \A i \in js : i <= j

\* C18 as stated: after any sequence of push_effect and pop_effect calls that leaves
\* the stack non-empty, the top mask gives each key k to the largest stack index
\* j >= 1 of an effect now on the stack whose push enabled k, and to 0 if there is
\* none: the first push's enabled_keys and those of popped effects do not count.
C18_OwnerIsLargestFlagged ==
    Len(effects) > 0
        => /\ Len(lastCall.flags) = Len(effects)
           /\ \A k \in Keys : Last(layerHistory)[k] = LargestFlagged(lastCall.flags, k)

\* C19: the last-render timestamp never exceeds the clock and never decreases; an
\* update call that renders reads, at its gate, a clock value at least 33 ms after
\* the last-render timestamp, and at least 33 ms after the gate reading of the
\* previous call that rendered.
C19_RendersSpaced ==
    /\ [](lastUpdateTime <= clock)
    /\ [][/\ lastUpdateTime' >= lastUpdateTime
          /\ handler'.renders > handler.renders
               => /\ Update
                  /\ handler'.renders = handler.renders + 1
                  /\ clock >= lastUpdateTime + ANIMATIONS_DELAY_MS
                  /\ lastRender.any => clock >= lastRender.gate + ANIMATIONS_DELAY_MS]_vars

\* C19 witness: a second render, on a stack of two effects, its gate reading at
\* least 66 ms after new
C19_Witness ==
    /\ lastCall.op = "update"
    /\ lastCall.rendered
    /\ handler.renders >= 2
    /\ Len(effects) >= 2
    /\ lastRender.gate >= StartTime + 2 * ANIMATIONS_DELAY_MS

====
